---- MODULE Spec2Model ----
(***************************************************************************)
(* CoachRAGBot: gazetteer-based fuzzy entity matcher (ner_model.py), the   *)
(* gazetteer construction (GazetteerData._fill_b_clubs), the knowledge     *)
(* lookup (wikidata_connector.py) and the resolution pipeline              *)
(* (RAGChatbot.process_query, prompt_builder.py).                          *)
(*                                                                         *)
(* Strings are sequences of one-character strings.  A similarity score is  *)
(* the exact rational [num, den] of the float the code computes; scores    *)
(* are compared by cross-multiplication.                                   *)
(***************************************************************************)
EXTENDS Integers, Sequences, FiniteSets, TLC

VARIABLES
    \* ---- GazetteerNER._best_span (one call) ----
    text_lc, pat_lc, threshold, max_dev, span_pc, span_result,
    \* ---- GazetteerData._fill_b_clubs (one construction) ----
    raw_clubs, raw_cities, gaz_pc, gaz_result,
    \* ---- RAGChatbot.process_query (one request) ----
    query, entity_dict, ner_results, entities, scan, lookups,
    resolved_club, prompt_dict, pc,
    \* ---- two requests sharing RAGChatbot.wikidata.sparql ----
    sparql_query, req_term, req_pc, req_query, req_result

span_vars == <<text_lc, pat_lc, threshold, max_dev, span_pc, span_result>>
gaz_vars == <<raw_clubs, raw_cities, gaz_pc, gaz_result>>
rag_vars == <<query, entity_dict, ner_results, entities, scan, lookups,
              resolved_club, prompt_dict, pc>>
conc_vars == <<sparql_query, req_term, req_pc, req_query, req_result>>
vars == <<span_vars, gaz_vars, rag_vars, conc_vars>>

\* Python's None, as a value of the same shape as the records it stands in for.
None == [kind |-> "None"]
IsNone(v) == v.kind = "None"

Max(a, b) == IF a >= b THEN a ELSE b
Min(a, b) == IF a <= b THEN a ELSE b

(***************************************************************************)
(* Bounds of the matcher's input space.                                    *)
(***************************************************************************)
MaxTextLen == 5
MaxPatLen == 4
MaxDev == 2

\* Characters of the lowercased matcher inputs.
Alphabet == {"a", "b"}

\* Thresholds tried for GazetteerNER(threshold=...), on the 0-100 scale of
\* the score; 90 is the default.  On these values the float test
\* `score >= threshold` agrees with the exact rational test for every
\* string length used here.
Thresholds == {0, 50, 90, 100}

RECURSIVE StringsOfLen(_, _)
StringsOfLen(S, n) ==
    IF n = 0 THEN {<<>>}
    ELSE {Append(s, c) : s \in StringsOfLen(S, n - 1), c \in S}

StringsUpTo(S, n) == UNION {StringsOfLen(S, k) : k \in 0..n}

\* Python slice text[i:j] for 0 <= i <= j <= len(text).
Slice(s, i, j) == SubSeq(s, i + 1, j)

(***************************************************************************)
(* rapidfuzz.fuzz.ratio: 100 * (1 - indel_distance / (len1 + len2)),       *)
(* indel_distance = len1 + len2 - 2 * LCS; 100 for two empty strings.      *)
(***************************************************************************)
RECURSIVE LcsRow(_, _, _, _)
LcsRow(prev, ch, b, cur) ==
    LET j == Len(cur) IN
    IF j > Len(b) THEN cur
    ELSE LcsRow(prev, ch, b,
                Append(cur, IF ch = b[j] THEN prev[j] + 1
                            ELSE Max(prev[j + 1], cur[j])))

RECURSIVE LcsRows(_, _, _, _)
LcsRows(a, b, i, prev) ==
    IF i > Len(a) THEN prev[Len(b) + 1]
    ELSE LcsRows(a, b, i + 1, LcsRow(prev, a[i], b, <<0>>))

LCSLen(a, b) == LcsRows(a, b, 1, [j \in 1..(Len(b) + 1) |-> 0])

Score(n, d) == [num |-> n, den |-> d]

RatioOfLonger(a, b) ==
    IF Len(a) + Len(b) = 0 THEN Score(100, 1)
    ELSE Score(100 * LCSLen(a, b), Max(Len(a), Len(b)))

Ratio(a, b) ==
    IF Len(a) + Len(b) = 0 THEN Score(100, 1)
    ELSE Score(200 * LCSLen(a, b), Len(a) + Len(b))

ScoreGt(s, t) == s.num * t.den > t.num * s.den
ScoreEq(s, t) == s.num * t.den = t.num * s.den
\* score >= threshold, threshold an integer
ScoreGeInt(s, t) == s.num >= t * s.den
ScoreIs(s, t) == s.num = t * s.den

(***************************************************************************)
(* GazetteerNER._best_span                                                 *)
(***************************************************************************)
Match(s, e, sc) == [kind |-> "match", start |-> s, end |-> e, score |-> sc]

\* best = (-1, -1, -1)
Sentinel == Match(-1, -1, Score(-1, 1))

WinLoOffByOne(m, dev) == Max(1, m - dev) + 1

\* lo = max(1, m - self.max_dev); hi = min(n, m + self.max_dev)
WinLo(m, dev) == Max(1, m - dev)
WinHi(n, m, dev) == Min(n, m + dev)

BetterOrEqual(score, best) == ~ScoreGt(best.score, score)

\* if score > best[2]: best = (i, i + win, score)
Better(score, best) == ScoreGt(score, best.score)

\* for i in range(0, n - win + 1): the inner loop from offset i on
RECURSIVE ScanOffsets(_, _, _, _, _)
ScanOffsets(text, pat, win, i, best) ==
    IF i > Len(text) - win THEN best
    ELSE LET score == Ratio(pat, Slice(text, i, i + win)) IN
         IF Better(score, best)
         THEN ScanOffsets(text, pat, win, i + 1, Match(i, i + win, score))
         ELSE ScanOffsets(text, pat, win, i + 1, best)

\* for win in range(lo, hi + 1): the outer loop from length win on
RECURSIVE ScanWindows(_, _, _, _, _)
ScanWindows(text, pat, win, hi, best) ==
    IF win > hi THEN best
    ELSE ScanWindows(text, pat, win + 1, hi,
                     ScanOffsets(text, pat, win, 0, best))

AcceptsStrict(best, thr) == best.score.num > thr * best.score.den

\* if best[2] >= self.threshold: return best
Accepts(best, thr) == ScoreGeInt(best.score, thr)

BestSpan(text, pat, thr, dev) ==
    LET n == Len(text)
        m == Len(pat)
        best == ScanWindows(text, pat, WinLo(m, dev), WinHi(n, m, dev), Sentinel)
    IN IF Accepts(best, thr) THEN best ELSE None

(***************************************************************************)
(* Specification of one _best_span call                                    *)
(***************************************************************************)
SpanIdle ==
    /\ text_lc = <<>> /\ pat_lc = <<>> /\ threshold = 0 /\ max_dev = 0
    /\ span_pc = "idle" /\ span_result = None

GazIdle ==
    /\ raw_clubs = <<>> /\ raw_cities = <<>>
    /\ gaz_pc = "idle" /\ gaz_result = None

RagIdle ==
    /\ query = <<>> /\ entity_dict = None /\ ner_results = <<>>
    /\ entities = <<>> /\ scan = 0 /\ lookups = <<>>
    /\ resolved_club = None /\ prompt_dict = None /\ pc = "idle"

ConcIdle ==
    /\ sparql_query = None /\ req_term = <<>> /\ req_pc = <<>>
    /\ req_query = <<>> /\ req_result = <<>>

SpanInit ==
    /\ text_lc \in StringsUpTo(Alphabet, MaxTextLen)
    /\ pat_lc \in StringsUpTo(Alphabet, MaxPatLen)
    /\ threshold \in Thresholds
    /\ max_dev \in 0..MaxDev
    /\ span_pc = "call"
    /\ span_result = None
    /\ GazIdle /\ RagIdle /\ ConcIdle

BestSpanCall ==
    /\ span_pc = "call"
    /\ span_result' = BestSpan(text_lc, pat_lc, threshold, max_dev)
    /\ span_pc' = "returned"
    /\ UNCHANGED <<text_lc, pat_lc, threshold, max_dev, gaz_vars, rag_vars, conc_vars>>

SpanNext == BestSpanCall

SpecSpan == SpanInit /\ [][SpanNext]_vars

(***************************************************************************)
(* Properties of _best_span (checked under SpecSpan)                       *)
(***************************************************************************)
\* The (start, end) windows of the text whose length lies in [lo, hi].
Windows ==
    {<<i, e>> \in (0..Len(text_lc)) \X (0..Len(text_lc)) :
        /\ e - i >= 1
        /\ e - i >= Len(pat_lc) - max_dev
        /\ e - i <= Len(pat_lc) + max_dev}

WindowScore(w) == Ratio(pat_lc, Slice(text_lc, w[1], w[2]))

\* The windows whose score no other window exceeds.
BestWindows == {w \in Windows : \A v \in Windows : ~ScoreGt(WindowScore(v), WindowScore(w))}

Returned == span_pc = "returned"

\* C4: _best_span returns none exactly when every candidate window scores
\* below the threshold (the highest score is below it); otherwise it returns
\* a candidate window with its own score, that score is the maximum over all
\* candidates, and it is never below the threshold.
C4_NoneIffBestBelowThreshold ==
    Returned =>
        IF IsNone(span_result)
        THEN \A w \in Windows : ~ScoreGeInt(WindowScore(w), threshold)
        ELSE /\ <<span_result.start, span_result.end>> \in Windows
             /\ ScoreEq(span_result.score,
                        WindowScore(<<span_result.start, span_result.end>>))
             /\ \A w \in Windows : ~ScoreGt(WindowScore(w), span_result.score)
             /\ ScoreGeInt(span_result.score, threshold)

\* A fuzzy (inexact) match is returned at threshold 50, and some window
\* scores lower than the returned one.
C4_Witness ==
    /\ Returned /\ threshold = 50 /\ ~IsNone(span_result)
    /\ ~ScoreIs(span_result.score, 100)
    /\ \E w \in Windows : ScoreGt(span_result.score, WindowScore(w))

\* Offsets at which the pattern occurs in the text.
Occurrences ==
    {i \in 0..(Len(text_lc) - Len(pat_lc)) :
        Slice(text_lc, i, i + Len(pat_lc)) = pat_lc}

\* C5: a non-empty pattern that occurs in the text is matched, for every
\* max_deviation >= 0 and threshold <= 100, with score 100 at its leftmost
\* exact occurrence.
C5_SubstringFoundAtLeftmost ==
    (Returned /\ pat_lc # <<>> /\ Occurrences # {} /\ threshold <= 100) =>
        /\ ~IsNone(span_result)
        /\ ScoreIs(span_result.score, 100)
        /\ Slice(text_lc, span_result.start, span_result.end) = pat_lc
        /\ \A i \in Occurrences : span_result.start <= i

\* The pattern occurs twice, not at offset 0, in a longer text, with
\* shorter and longer windows enumerated too.
C5_Witness ==
    /\ Returned /\ Len(pat_lc) >= 2 /\ Cardinality(Occurrences) >= 2
    /\ 0 \notin Occurrences /\ max_dev >= 1 /\ threshold = 100
    /\ ~IsNone(span_result) /\ span_result.start > 0

\* C6: a call with an empty pattern is rejected with InvalidArgument
\* instead of returning a match or none.
C6_EmptyPatternRejected ==
    (Returned /\ pat_lc = <<>>) => span_result.kind = "InvalidArgument"

\* Order of candidates: a before b.
StartThenLength(a, b) ==
    \/ a[1] < b[1]
    \/ a[1] = b[1] /\ a[2] - a[1] <= b[2] - b[1]

LengthThenStart(a, b) ==
    \/ a[2] - a[1] < b[2] - b[1]
    \/ a[2] - a[1] = b[2] - b[1] /\ a[1] <= b[1]

\* C10 as stated: among the best-scoring candidates the one returned has
\* the lowest start and, for that start, the smallest window length.
C10_TieLowestStartFirst ==
    (Returned /\ ~IsNone(span_result)) =>
        \A w \in BestWindows :
            StartThenLength(<<span_result.start, span_result.end>>, w)

\* C10 amended: among the best-scoring candidates the one returned has the
\* smallest window length and, for that length, the lowest start.
C10_TieShortestWindowFirst ==
    (Returned /\ ~IsNone(span_result)) =>
        /\ <<span_result.start, span_result.end>> \in Windows
        /\ \A w \in Windows :
               /\ ~ScoreGt(WindowScore(w), span_result.score)
               /\ ScoreEq(WindowScore(w), span_result.score) =>
                      LengthThenStart(<<span_result.start, span_result.end>>, w)

\* The best score is shared by a shorter window at a higher start and a
\* longer window at a lower start; the shorter one is returned.
C10_Witness ==
    /\ Returned /\ ~IsNone(span_result)
    /\ \E w \in BestWindows :
          /\ w[1] < span_result.start
          /\ w[2] - w[1] > span_result.end - span_result.start


(***************************************************************************)
(* _best_span on texts that hold a surface form with one character         *)
(* dropped, at the default threshold.                                      *)
(***************************************************************************)
MaxTypoPatLen == 6

\* Text before and after the misspelt surface form.
Paddings == {<<>>, <<"a">>, <<"b", "a">>}

\* s with its k-th character (1-based) removed.
DeleteAt(s, k) == SubSeq(s, 1, k - 1) \o SubSeq(s, k + 1, Len(s))

TypoInit ==
    /\ pat_lc \in UNION {StringsOfLen(Alphabet, m) : m \in 6..MaxTypoPatLen}
    /\ \E k \in 1..Len(pat_lc), before \in Paddings, after \in Paddings :
           text_lc = before \o DeleteAt(pat_lc, k) \o after
    /\ threshold = 90
    /\ max_dev \in 1..MaxDev
    /\ span_pc = "call"
    /\ span_result = None
    /\ GazIdle /\ RagIdle /\ ConcIdle

SpecTypo == TypoInit /\ [][SpanNext]_vars

\* C12: with threshold 90 and max_deviation >= 1, a pattern of length at
\* least 6 whose one-character-deleted form occurs in the text is matched
\* (the result is not none) with a score of at least the threshold.
C12_OneDeletionMatched ==
    (Returned /\ threshold = 90 /\ max_dev >= 1 /\ Len(pat_lc) >= 6
       /\ \E k \in 1..Len(pat_lc), i \in 0..Len(text_lc) :
              /\ i + Len(pat_lc) - 1 <= Len(text_lc)
              /\ Slice(text_lc, i, i + Len(pat_lc) - 1) = DeleteAt(pat_lc, k))
    => /\ ~IsNone(span_result)
       /\ ScoreGeInt(span_result.score, threshold)

\* The pattern itself does not occur, only its misspelling inside a longer
\* text, and the match returned is inexact.
C12_Witness ==
    /\ Returned /\ threshold = 90 /\ Len(pat_lc) >= 6 /\ Occurrences = {}
    /\ Len(text_lc) > Len(pat_lc)
    /\ ~IsNone(span_result) /\ ~ScoreIs(span_result.score, 100)
    /\ span_result.start > 0

(***************************************************************************)
(* _best_span with any integer threshold: GazetteerNER(threshold=...)      *)
(* accepts thresholds below the 0-100 scale of the score.                  *)
(***************************************************************************)
AnyThresholds == {-1, 0, 90}

SpanAnyInit ==
    /\ text_lc \in StringsUpTo(Alphabet, MaxTextLen)
    /\ pat_lc \in StringsUpTo(Alphabet, MaxPatLen)
    /\ threshold \in AnyThresholds
    /\ max_dev \in 0..MaxDev
    /\ span_pc = "call"
    /\ span_result = None
    /\ GazIdle /\ RagIdle /\ ConcIdle

SpecSpanAny == SpanAnyInit /\ [][SpanNext]_vars

\* C13: every non-none result (start, end, score) satisfies
\* 0 <= start <= end <= len(text) with end - start in
\* [max(1, m - max_deviation), min(n, m + max_deviation)]; when no candidate
\* window exists (lo > hi) the result is none, and the initial sentinel
\* (-1, -1, -1) is never returned.
C13_SpanWithinText ==
    Returned =>
        LET n == Len(text_lc)
            m == Len(pat_lc)
            lo == Max(1, m - max_dev)
            hi == Min(n, m + max_dev)
        IN /\ lo > hi => IsNone(span_result)
           /\ ~IsNone(span_result) =>
                  /\ 0 <= span_result.start
                  /\ span_result.start <= span_result.end
                  /\ span_result.end <= n
                  /\ span_result.end - span_result.start \in lo..hi
                  /\ span_result # Sentinel

(***************************************************************************)
(* str.lower() and str.split() on the characters the model uses.           *)
(***************************************************************************)
LowerOf == [A |-> "a", B |-> "b", C |-> "c", F |-> "f", M |-> "m"]

LowerChar(c) == IF c \in DOMAIN LowerOf THEN LowerOf[c] ELSE c

Lower(s) == [k \in 1..Len(s) |-> LowerChar(s[k])]

\* s.split(): the maximal runs of non-space characters, in order.
RECURSIVE SplitFrom(_, _, _, _)
SplitFrom(s, k, cur, acc) ==
    IF k > Len(s) THEN (IF cur = <<>> THEN acc ELSE Append(acc, cur))
    ELSE IF s[k] = " "
         THEN SplitFrom(s, k + 1, <<>>, IF cur = <<>> THEN acc ELSE Append(acc, cur))
         ELSE SplitFrom(s, k + 1, Append(cur, s[k]), acc)

Split(s) == SplitFrom(s, 1, <<>>, <<>>)

\* max(parts, key=len) for a non-empty list: the first part of maximal length.
Longest(parts) ==
    LET k == CHOOSE i \in 1..Len(parts) :
                 /\ \A j \in 1..Len(parts) : Len(parts[j]) <= Len(parts[i])
                 /\ \A j \in 1..(i - 1) : Len(parts[j]) < Len(parts[i])
    IN parts[k]

(***************************************************************************)
(* GazetteerData._fill_b_clubs                                             *)
(***************************************************************************)
\* clubs.append(club.lower()); clubs.append(max(club.split(), key=len).lower())
ClubForms(club) == {Lower(club), Lower(Longest(Split(club)))}

\* if parts: cities.append(parts[0].lower());  cities.append(c.lower())
CityForms(c) ==
    (IF Split(c) # <<>> THEN {Lower(Split(c)[1])} ELSE {}) \cup {Lower(c)}

\* max() of an empty club.split() raises ValueError, which nothing catches.
FillBClubs(clubs, cities) ==
    IF \E k \in DOMAIN clubs : Split(clubs[k]) = <<>>
    THEN [kind |-> "ValueError"]
    ELSE [kind |-> "entities",
          CLUBS |-> UNION {ClubForms(clubs[k]) : k \in DOMAIN clubs},
          CITIES |-> UNION {CityForms(cities[k]) : k \in DOMAIN cities}]

(***************************************************************************)
(* Specification of one gazetteer construction                             *)
(***************************************************************************)
MaxRows == 2
MaxNameLen == 2

NameAlphabet == {"a", "B", " "}

RawNames == StringsUpTo(NameAlphabet, MaxNameLen)

\* club_name and city_name are two columns of one table: equal lengths.
GazInit ==
    /\ \E n \in 0..MaxRows :
          /\ raw_clubs \in [1..n -> RawNames]
          /\ raw_cities \in [1..n -> RawNames]
    /\ gaz_pc = "init"
    /\ gaz_result = None
    /\ SpanIdle /\ RagIdle /\ ConcIdle

FillBClubsCall ==
    /\ gaz_pc = "init"
    /\ gaz_result' = FillBClubs(raw_clubs, raw_cities)
    /\ gaz_pc' = "done"
    /\ UNCHANGED <<raw_clubs, raw_cities, span_vars, rag_vars, conc_vars>>

GazNext == FillBClubsCall

SpecGaz == GazInit /\ [][GazNext]_vars

\* C9: construction skips empty and whitespace-only club and city names
\* without raising, and neither set contains the empty string afterwards.
C9_EmptyNamesSkipped ==
    gaz_pc = "done" =>
        /\ gaz_result.kind = "entities"
        /\ <<>> \notin gaz_result.CLUBS
        /\ <<>> \notin gaz_result.CITIES


(***************************************************************************)
(* GazetteerNER.predict                                                    *)
(***************************************************************************)
\* GazetteerNER.__init__ defaults, which NERManager uses.
DefaultThreshold == 90
DefaultMaxDev == 3

\* for label, words in self.entity_dict.items(): CLUBS is inserted first.
Labels == <<"CLUBS", "CITIES">>

\* One iteration of `for w in words`: the tuple appended, if any.
PredictWord(text, label, w, thr, dev) ==
    LET m == BestSpan(Lower(text), Lower(w), thr, dev) IN
    IF IsNone(m) THEN <<>>
    ELSE <<[text |-> Slice(text, m.start, m.end), start |-> m.start,
            end |-> m.end, label |-> label, score |-> m.score]>>

RECURSIVE PredictWords(_, _, _, _, _, _)
PredictWords(text, label, words, k, thr, dev) ==
    IF k > Len(words) THEN <<>>
    ELSE PredictWord(text, label, words[k], thr, dev)
         \o PredictWords(text, label, words, k + 1, thr, dev)

PredictLastLabelFirst(text, dict, thr, dev) ==
    PredictWords(text, Labels[2], dict[Labels[2]], 1, thr, dev)
    \o PredictWords(text, Labels[1], dict[Labels[1]], 1, thr, dev)

\* dict is the gazetteer with each set in its iteration order.
Predict(text, dict, thr, dev) ==
    PredictWords(text, Labels[1], dict[Labels[1]], 1, thr, dev)
    \o PredictWords(text, Labels[2], dict[Labels[2]], 1, thr, dev)

(***************************************************************************)
(* Specification of one predict call on a gazetteer given as lists         *)
(***************************************************************************)
MaxQueryLen == 3
MaxWords == 2

\* Characters of the text handed to predict, in both cases.
QueryAlphabet == {"a", "B"}

\* Surface forms an entity_dict may hold.
SurfaceForms == {<<"a">>, <<"B", "a">>}

\* entity_dict values: lists of surface forms, repetitions included.
WordLists == UNION {[1..k -> SurfaceForms] : k \in 0..MaxWords}

PredictInit ==
    /\ query \in StringsUpTo(QueryAlphabet, MaxQueryLen)
    /\ entity_dict \in [CLUBS : WordLists, CITIES : WordLists]
    /\ threshold \in {50, 90}
    /\ max_dev \in {0, MaxDev}
    /\ ner_results = <<>>
    /\ pc = "predict"
    /\ text_lc = <<>> /\ pat_lc = <<>> /\ span_pc = "idle" /\ span_result = None
    /\ entities = <<>> /\ scan = 0 /\ lookups = <<>>
    /\ resolved_club = None /\ prompt_dict = None
    /\ GazIdle /\ ConcIdle

PredictCall ==
    /\ pc = "predict"
    /\ ner_results' = Predict(query, entity_dict, threshold, max_dev)
    /\ pc' = "predicted"
    /\ UNCHANGED <<query, entity_dict, entities, scan, lookups, resolved_club,
                   prompt_dict, span_vars, gaz_vars, conc_vars>>

PredictNext == PredictCall

SpecPredict == PredictInit /\ [][PredictNext]_vars

\* The (label, surface form) pairs in gazetteer iteration order.
GazetteerPairs ==
    [k \in 1..(Len(entity_dict.CLUBS) + Len(entity_dict.CITIES)) |->
        IF k <= Len(entity_dict.CLUBS)
        THEN [label |-> "CLUBS", word |-> entity_dict.CLUBS[k]]
        ELSE [label |-> "CITIES",
              word |-> entity_dict.CITIES[k - Len(entity_dict.CLUBS)]]]

PairSpan(p) == BestSpan(Lower(query), Lower(p.word), threshold, max_dev)

\* C14: predict returns exactly one tuple for each (label, surface form)
\* pair whose span match is not none and nothing for the others, in
\* gazetteer iteration order (label, then surface form), without
\* deduplicating identical or overlapping spans; each tuple's matched
\* substring is text[start:end] of the original text and its score is at
\* least the threshold.
C14_OneTuplePerMatchedPair ==
    pc = "predicted" =>
        LET pairs == GazetteerPairs
            spans == [k \in DOMAIN pairs |-> PairSpan(pairs[k])]
            matched == SelectSeq([k \in DOMAIN pairs |-> k],
                                 LAMBDA k : ~IsNone(spans[k]))
        IN /\ Len(ner_results) = Len(matched)
           /\ \A k \in 1..Len(ner_results) :
                  LET t == ner_results[k]
                      m == spans[matched[k]]
                  IN /\ t.label = pairs[matched[k]].label
                     /\ t.start = m.start /\ t.end = m.end /\ t.score = m.score
                     /\ t.text = Slice(query, t.start, t.end)
                     /\ ScoreGeInt(t.score, threshold)

\* Two pairs of different labels give the same span, both are reported,
\* another pair gives none, and the matched substring differs from its
\* lowercased form.
C14_Witness ==
    /\ pc = "predicted"
    /\ Len(ner_results) < Len(GazetteerPairs)
    /\ \E i, j \in 1..Len(ner_results) :
          /\ i < j
          /\ ner_results[i].label # ner_results[j].label
          /\ ner_results[i].start = ner_results[j].start
          /\ ner_results[i].end = ner_results[j].end
          /\ ner_results[i].text # Lower(ner_results[i].text)

(***************************************************************************)
(* RAGChatbot._convert_entities and the sort of process_query              *)
(***************************************************************************)
\* ExtractedEntity(text, start, end, label, score / 100, "gazetteer")
ExtractedEntity(t) ==
    [text |-> t.text, start |-> t.start, end |-> t.end, label |-> t.label,
     confidence |-> Score(t.score.num, t.score.den * 100),
     source |-> "gazetteer"]

ConvertEntities(results) == [k \in 1..Len(results) |-> ExtractedEntity(results[k])]

\* Position at which list.sort(reverse=True) leaves e among the already
\* sorted elements: behind every element whose key is not smaller.
RECURSIVE InsertDesc(_, _)
InsertDesc(sorted, e) ==
    IF sorted = <<>> THEN <<e>>
    ELSE IF ScoreGt(e.confidence, sorted[1].confidence)
         THEN <<e>> \o sorted
         ELSE <<sorted[1]>> \o InsertDesc(Tail(sorted), e)

RECURSIVE InsertAsc(_, _)
InsertAsc(sorted, e) ==
    IF sorted = <<>> THEN <<e>>
    ELSE IF ScoreGt(sorted[1].confidence, e.confidence)
         THEN <<e>> \o sorted
         ELSE <<sorted[1]>> \o InsertAsc(Tail(sorted), e)

RECURSIVE SortAscending(_, _)
SortAscending(list, k) ==
    IF k = 0 THEN <<>> ELSE InsertAsc(SortAscending(list, k - 1), list[k])

Reverse(list) == [k \in 1..Len(list) |-> list[Len(list) + 1 - k]]

\* sorted(entities, key=confidence)[::-1]: descending, ties reversed.
SortAscendingReversed(list) == Reverse(SortAscending(list, Len(list)))

RECURSIVE SortDescending(_, _)
SortDescending(list, k) ==
    IF k = 0 THEN <<>> ELSE InsertDesc(SortDescending(list, k - 1), list[k])

\* entities.sort(key=lambda x: x.confidence, reverse=True): stable.
SortByConfidence(list) == SortDescending(list, Len(list))

(***************************************************************************)
(* WikidataConnector.get_club_info                                         *)
(***************************************************************************)
\* Python's None in a field that otherwise holds a string.
NoStr == "<None>"

\* Truth value of an optional string.
TruthyStr(v) == v # NoStr /\ v # ""

\* binding.get(key, {}).get("value", default)
BindingValue(binding, key, default) ==
    IF key \in DOMAIN binding THEN binding[key] ELSE default

\* What the SPARQL endpoint does on search_bundesliga_club:
\*   interrupt - a BaseException that is no Exception (KeyboardInterrupt,
\*               SystemExit) is raised during the blocking query;
\*   error     - the query raises an Exception;
\*   malformed - it answers with JSON that lacks results.bindings;
\*   bindings  - it answers with a list of bindings.
\* search_bundesliga_club turns an Exception into an empty binding list.
SearchBundesligaClub(response) ==
    IF response.kind = "error" THEN [kind |-> "bindings", bindings |-> <<>>]
    ELSE response

Raise(exc) == [kind |-> "raise", exc |-> exc]
Return(v) == [kind |-> "return", value |-> v]

\* Exception classes that derive from Exception.
ExceptionClasses == {"ValueError", "KeyError", "Exception"}

GetWikipediaContentUncaught(fetch) ==
    IF fetch.kind = "interrupt" THEN Raise("KeyboardInterrupt")
    ELSE IF fetch.kind = "error" THEN Raise("Exception")
    ELSE Return(fetch.value)

\* get_wikipedia_content_from_wikidata, by what the two HTTP requests do:
\*   interrupt - a BaseException that is no Exception is raised;
\*   error     - a request or the decoding raises an Exception -> None;
\*   content   - the extract, or None when the page has none.
GetWikipediaContent(fetch) ==
    IF fetch.kind = "interrupt" THEN Raise("KeyboardInterrupt")
    ELSE IF fetch.kind = "error" THEN Return(NoStr)
    ELSE Return(fetch.value)

\* The try block of get_club_info.
GetClubInfoBody(response, club_fetch, manager_fetch) ==
    LET results == SearchBundesligaClub(response) IN
    IF results.kind = "interrupt" THEN Raise("KeyboardInterrupt")
    ELSE IF results.kind = "malformed" THEN Raise("KeyError")
    ELSE IF results.bindings = <<>> THEN None
    ELSE LET binding == results.bindings[1]
             club_name == BindingValue(binding, "clubLabel", "Unknown Club")
             manager_name == BindingValue(binding, "managerLabel", "Unknown Manager")
             club_url == BindingValue(binding, "club", NoStr)
             manager_url == BindingValue(binding, "manager", NoStr)
             cc == IF TruthyStr(club_url) THEN GetWikipediaContent(club_fetch)
                   ELSE Return(NoStr)
             mc == IF TruthyStr(manager_url) THEN GetWikipediaContent(manager_fetch)
                   ELSE Return(NoStr)
         IN IF cc.kind = "raise" THEN cc
            ELSE IF mc.kind = "raise" THEN mc
            ELSE [kind |-> "club_info",
                  club_name |-> club_name,
                  manager_name |-> manager_name,
                  club_wikipedia_url |->
                      IF TruthyStr(cc.value)
                      THEN [kind |-> "wiki", title |-> club_name] ELSE None,
                  club_content |-> cc.value,
                  manager_wikipedia_url |->
                      IF TruthyStr(mc.value)
                      THEN [kind |-> "wiki", title |-> manager_name] ELSE None,
                  manager_content |-> mc.value]

\* Whether get_club_info gets as far as fetching the club's and the
\* manager's content: `if club_url:` and `if manager_url:`.
FetchesClub(response) ==
    /\ response.kind = "bindings"
    /\ response.bindings # <<>>
    /\ TruthyStr(BindingValue(response.bindings[1], "club", NoStr))

FetchesManager(response, club_fetch) ==
    /\ response.kind = "bindings"
    /\ response.bindings # <<>>
    /\ FetchesClub(response) => club_fetch.kind # "interrupt"
    /\ TruthyStr(BindingValue(response.bindings[1], "manager", NoStr))

\* No request was made.
NotFetched == [kind |-> "not fetched"]

ExceptNothing(outcome) == outcome

\* except ValueError / except KeyError / except Exception: return None
ExceptClauses(outcome) ==
    IF outcome.kind = "raise" /\ outcome.exc \in ExceptionClasses THEN None
    ELSE outcome

GetClubInfo(response, club_fetch, manager_fetch) ==
    ExceptClauses(GetClubInfoBody(response, club_fetch, manager_fetch))

(***************************************************************************)
(* PromptBuilder                                                           *)
(***************************************************************************)
Lit(s) == [kind |-> "literal", value |-> s]
Txt(t) == [kind |-> "text", value |-> t]

\* build_manager_prompt
BuildManagerPrompt(user_query, club_name, city_name, manager_name, manager_info) ==
    [kind |-> "prompt",
     system |-> "manager_system_prompt",
     user |-> <<Lit("CONTEXT: Club: "), Lit(club_name), Lit(" City: "), Txt(city_name),
                Lit(" Current Manager: "), Lit(manager_name),
                Lit(" Manager Background: "),
                Lit(IF TruthyStr(manager_info) THEN manager_info
                    ELSE "Additional information not available"),
                Lit(" USER QUESTION: "), Txt(user_query)>>,
     context |-> [club_name |-> club_name, manager_name |-> manager_name,
                  manager_info |-> manager_info]]

\* build_error_prompt
BuildErrorPrompt(user_query, error_msg) ==
    [kind |-> "prompt",
     system |-> "error_system_prompt",
     user |-> <<Lit("I asked: "), Txt(user_query), Lit(" System message: ")>>
              \o error_msg \o <<Lit(" Please explain ...")>>,
     context |-> [error |-> error_msg]]


(***************************************************************************)
(* RAGChatbot.process_query                                                *)
(***************************************************************************)
\* ResolvedClub(club_name=..., city_name=entity.text, manager_name=..., ...)
ResolvedClub(entity, club_info) ==
    [kind |-> "ResolvedClub",
     club_name |-> club_info.club_name,
     city_name |-> entity.text,
     manager_name |-> club_info.manager_name,
     club_content |-> club_info.club_content,
     manager_content |-> club_info.manager_content]

\* if entity.label in ("CLUBS", "CITIES")
IsLookedUp(entity) == entity.label \in {"CLUBS", "CITIES"}

LookupRaisesCaught(club_info) == FALSE

\* get_club_info is called outside any try block: what it raises leaves
\* process_query.
LookupRaises(club_info) == club_info.kind = "raise"

\* if club_info: (a dict with its six keys is truthy, None is not)
IsMatch(club_info) == club_info.kind = "club_info"

AfterLookupNoBreak(matched, k) == [pc |-> "scan", scan |-> k + 1]

\* `break` after a match, the next entity otherwise.
AfterLookup(matched, k) ==
    IF matched THEN [pc |-> "build", scan |-> k]
    ELSE [pc |-> "scan", scan |-> k + 1]

\* if resolved_club and resolved_club.manager_name
TakesSuccessBranch(rc) == ~IsNone(rc) /\ TruthyStr(rc.manager_name)

\* entities[:3]
NamedInError == 3

AllEntities(list) == list

DiagnosticEntities(list) == SubSeq(list, 1, Min(NamedInError, Len(list)))

\* ', '.join(texts)
RECURSIVE Join(_, _)
Join(texts, k) ==
    IF k > Len(texts) THEN <<>>
    ELSE (IF k > 1 THEN <<Lit(", ")>> ELSE <<>>) \o <<Txt(texts[k])>>
         \o Join(texts, k + 1)

ErrorReason(list) ==
    <<Lit("No matching Bundesliga club found or manager information unavailable")>>
    \o (IF list # <<>>
        THEN <<Lit(" for detected entities: ")>>
             \o Join([k \in 1..Len(DiagnosticEntities(list)) |->
                         DiagnosticEntities(list)[k].text], 1)
        ELSE <<>>)

(***************************************************************************)
(* Inputs of the pipeline: the gazetteer built at start-up, the queries,   *)
(* and what the knowledge base answers.                                    *)
(***************************************************************************)
RawClubs == << <<"F", "C", " ", "M", "a", "i", "n", "z">>,
               <<"B", "a", "y", "e", "r", "n">> >>
RawCities == << <<"M", "a", "i", "n", "z">>, <<"M", "a", "i", "n", "z">> >>

Queries ==
    { <<"f", "c", " ", "M", "a", "i", "n", "z", " ", "b", "a", "y", "r", "n">>,
      <<"b", "a", "y", "r", "n", " ", "M", "a", "i", "n", "z">>,
      <<"m", "a", "i", "n", "z">>,
      <<"w", "h", "o">> }

\* Iteration orders of a set of strings (Python fixes none).
Orders(S) ==
    {f \in [1..Cardinality(S) -> S] : \A i, j \in 1..Cardinality(S) : f[i] = f[j] => i = j}

Gazetteers ==
    LET g == FillBClubs(RawClubs, RawCities) IN
    {[CLUBS |-> c, CITIES |-> d] : c \in Orders(g.CLUBS), d \in Orders(g.CITIES)}

KBBindings ==
    { [club |-> "Q1", clubLabel |-> "FC X", manager |-> "Q2", managerLabel |-> "Coach"],
      [club |-> "Q1", clubLabel |-> "FC X", manager |-> "Q2", managerLabel |-> ""],
      [club |-> "Q1", clubLabel |-> "FC X", manager |-> "Q2"],
      [clubLabel |-> "FC X", managerLabel |-> "Coach"] }

KBResponses ==
    {[kind |-> "interrupt"], [kind |-> "error"], [kind |-> "malformed"],
     [kind |-> "bindings", bindings |-> <<>>]}
    \cup {[kind |-> "bindings", bindings |-> <<b>>] : b \in KBBindings}

\* What the requests of one get_wikipedia_content_from_wikidata call do.
FetchOutcomes ==
    {[kind |-> "interrupt"], [kind |-> "error"],
     [kind |-> "content", value |-> NoStr],
     [kind |-> "content", value |-> "extract"]}

RagInit ==
    /\ query \in Queries
    /\ entity_dict \in Gazetteers
    /\ ner_results = <<>>
    /\ entities = <<>>
    /\ scan = 0
    /\ lookups = <<>>
    /\ resolved_club = None
    /\ prompt_dict = None
    /\ pc = "start"
    /\ SpanIdle /\ GazIdle /\ ConcIdle

\* ner_results = predict(query); entities = convert; entities.sort(...)
ExtractAndSort ==
    /\ pc = "start"
    /\ ner_results' = Predict(query, entity_dict, DefaultThreshold, DefaultMaxDev)
    /\ entities' = SortByConfidence(ConvertEntities(ner_results'))
    /\ scan' = 1
    /\ pc' = "scan"
    /\ UNCHANGED <<query, entity_dict, lookups, resolved_club, prompt_dict,
                   span_vars, gaz_vars, conc_vars>>

\* One iteration of `for entity in entities`.
ScanStep ==
    /\ pc = "scan"
    /\ scan <= Len(entities)
    /\ LET entity == entities[scan] IN
       IF IsLookedUp(entity)
       THEN \E response \in KBResponses, club_fetch \in FetchOutcomes,
                 manager_fetch \in FetchOutcomes :
              LET club_info == GetClubInfo(response, club_fetch, manager_fetch)
                  after == AfterLookup(IsMatch(club_info), scan)
              IN /\ lookups' = Append(lookups, [index |-> scan,
                                                term |-> entity.text,
                                                response |-> response,
                                                club_fetch |->
                                                    IF FetchesClub(response)
                                                    THEN club_fetch ELSE NotFetched,
                                                manager_fetch |->
                                                    IF FetchesManager(response, club_fetch)
                                                    THEN manager_fetch ELSE NotFetched,
                                                result |-> club_info])
                 /\ IF LookupRaises(club_info)
                    THEN pc' = "raised" /\ UNCHANGED <<scan, resolved_club>>
                    ELSE /\ pc' = after.pc
                         /\ scan' = after.scan
                         /\ resolved_club' =
                               IF IsMatch(club_info)
                               THEN ResolvedClub(entity, club_info)
                               ELSE resolved_club
       ELSE /\ scan' = scan + 1
            /\ UNCHANGED <<pc, lookups, resolved_club>>
    /\ UNCHANGED <<query, entity_dict, ner_results, entities, prompt_dict,
                   span_vars, gaz_vars, conc_vars>>

\* The if/else after the loop and the return.
BuildPrompt ==
    /\ pc \in {"scan", "build"}
    /\ pc = "scan" => scan > Len(entities)
    /\ prompt_dict' =
          IF TakesSuccessBranch(resolved_club)
          THEN BuildManagerPrompt(query, resolved_club.club_name,
                                  resolved_club.city_name,
                                  resolved_club.manager_name,
                                  resolved_club.manager_content)
          ELSE BuildErrorPrompt(query, ErrorReason(entities))
    /\ pc' = "done"
    /\ UNCHANGED <<query, entity_dict, ner_results, entities, scan, lookups,
                   resolved_club, span_vars, gaz_vars, conc_vars>>

Next ==
    \/ ExtractAndSort
    \/ ScanStep
    \/ BuildPrompt

Spec == RagInit /\ [][Next]_vars


(***************************************************************************)
(* Properties of process_query (checked under Spec)                        *)
(***************************************************************************)
Emitted == ConvertEntities(ner_results)

\* The ways to trace each position of the sorted list back to a position
\* of the predictor's output holding the same entity.
Origins ==
    {f \in [1..Len(entities) -> 1..Len(Emitted)] :
        /\ \A i, j \in 1..Len(entities) : f[i] = f[j] => i = j
        /\ \A i \in 1..Len(entities) : entities[i] = Emitted[f[i]]}

\* C1: lookups are attempted by descending confidence; of two looked-up
\* entities the more confident one is looked up first, and of two equally
\* confident ones the one the predictor emitted first.
C1_LookupsByDescendingConfidence ==
    pc \in {"scan", "build", "done", "raised"} =>
        /\ Len(entities) = Len(Emitted)
        /\ \A i \in 1..Len(lookups) :
              /\ lookups[i].index \in 1..Len(entities)
              /\ lookups[i].term = entities[lookups[i].index].text
        /\ \E origin \in Origins :
              \A i, j \in 1..Len(lookups) :
                  LET a == lookups[i].index
                      b == lookups[j].index
                  IN /\ ScoreGt(entities[a].confidence, entities[b].confidence)
                          => i < j
                     /\ (/\ ScoreEq(entities[a].confidence, entities[b].confidence)
                         /\ origin[a] < origin[b]) => i < j

\* Looked up: two equally confident entities and a less confident one that
\* the predictor emitted before one of them.
C1_Witness ==
    /\ pc = "done"
    /\ entities # Emitted
    /\ \E i, j \in 1..Len(lookups) :
          /\ i < j
          /\ entities[lookups[i].index] # entities[lookups[j].index]
          /\ ScoreEq(entities[lookups[i].index].confidence,
                     entities[lookups[j].index].confidence)
    /\ \E i, j \in 1..Len(lookups) :
          ScoreGt(entities[lookups[i].index].confidence,
                  entities[lookups[j].index].confidence)

\* C2: the first lookup that returns a record ends the scan and alone
\* determines the resolved club; no entity is looked up twice; when no
\* lookup returns a record, every CLUBS/CITIES entity was looked up once
\* and no club is resolved.
C2_FirstMatchWins ==
    LET n == Len(lookups) IN
    /\ \A i, j \in 1..n : lookups[i].index = lookups[j].index => i = j
    /\ \A i \in 1..n :
          lookups[i].result.kind = "club_info" =>
              /\ i = n
              /\ resolved_club =
                    [kind |-> "ResolvedClub",
                     club_name |-> lookups[i].result.club_name,
                     city_name |-> lookups[i].term,
                     manager_name |-> lookups[i].result.manager_name,
                     club_content |-> lookups[i].result.club_content,
                     manager_content |-> lookups[i].result.manager_content]
    /\ ~IsNone(resolved_club) => n > 0 /\ lookups[n].result.kind = "club_info"
    /\ (pc = "done" /\ \A i \in 1..n : lookups[i].result.kind # "club_info") =>
          /\ IsNone(resolved_club)
          /\ {lookups[i].index : i \in 1..n} =
                {k \in 1..Len(entities) : entities[k].label \in {"CLUBS", "CITIES"}}

\* A record is returned for the second of four entities after a miss.
C2_Witness ==
    /\ pc = "done"
    /\ Len(entities) = 4
    /\ Len(lookups) = 2
    /\ lookups[1].result.kind = "None"
    /\ ~IsNone(resolved_club)

IsSuccessPrompt(p) == DOMAIN p.context = {"club_name", "manager_name", "manager_info"}
IsFailurePrompt(p) == DOMAIN p.context = {"error"}

\* The knowledge base answered with a club that has no manager name.
ClubWithoutManager(response) ==
    /\ response.kind = "bindings"
    /\ response.bindings # <<>>
    /\ \/ "managerLabel" \notin DOMAIN response.bindings[1]
       \/ response.bindings[1].managerLabel = ""

\* C3: the success package is built exactly when a club was resolved and
\* it carries a manager name; a club for which the knowledge base has no
\* manager name leads to the failure package.
C3_ManagerAbsenceForcesFailure ==
    pc = "done" =>
        /\ IsSuccessPrompt(prompt_dict) <=>
              (~IsNone(resolved_club) /\ TruthyStr(resolved_club.manager_name))
        /\ IsSuccessPrompt(prompt_dict) \/ IsFailurePrompt(prompt_dict)
        /\ \A i \in 1..Len(lookups) :
              ClubWithoutManager(lookups[i].response) => IsFailurePrompt(prompt_dict)

\* C7: a lookup that raises ends process_query there: the raise is the
\* last thing that happens, no PromptPackage exists and none is built.
C7_LookupErrorPropagates ==
    /\ \A i \in 1..Len(lookups) :
          lookups[i].result.kind = "raise" => pc = "raised" /\ i = Len(lookups)
    /\ pc = "raised" =>
          /\ IsNone(prompt_dict)
          /\ Len(lookups) > 0
          /\ lookups[Len(lookups)].result.kind = "raise"
          /\ ~ENABLED Next

\* The lookup of the third entity raises after two lookups found nothing.
C7_Witness ==
    /\ pc = "raised"
    /\ Len(lookups) = 3
    /\ lookups[3].response.kind = "interrupt"

IsTxt(token) == token.kind = "text"

\* C8: on the failure branch the context has the single key `error`, and
\* the error names the texts of the first min(3, k) of the k entities in
\* sorted order (none when k = 0); without entities process_query cannot
\* raise and returns this package.
C8_FailureContext ==
    /\ (pc = "done" /\ (IsNone(resolved_club) \/ ~TruthyStr(resolved_club.manager_name))) =>
          /\ DOMAIN prompt_dict = {"kind", "system", "user", "context"}
          /\ DOMAIN prompt_dict.context = {"error"}
          /\ LET names == SelectSeq(prompt_dict.context.error, IsTxt) IN
                /\ Len(names) = Min(3, Len(entities))
                /\ \A i \in 1..Len(names) : names[i].value = entities[i].text
          /\ entities = <<>> => Len(prompt_dict.context.error) = 1
    /\ (pc \in {"scan", "build", "raised"} /\ entities = <<>>) =>
          /\ pc = "scan"
          /\ ENABLED BuildPrompt

\* The failure package is built with four entities detected.
C8_Witness ==
    /\ pc = "done"
    /\ Len(entities) = 4
    /\ IsFailurePrompt(prompt_dict)


\* A BaseException that is no Exception was raised during the search or
\* during a content fetch that get_club_info made.
LookupInterrupted(l) ==
    \/ l.response.kind = "interrupt"
    \/ l.club_fetch.kind = "interrupt"
    \/ l.manager_fetch.kind = "interrupt"

\* The search failed with an Exception, answered in an unexpected format,
\* or yielded no binding.
LookupFailed(l) ==
    \/ l.response.kind \in {"error", "malformed"}
    \/ l.response.kind = "bindings" /\ l.response.bindings = <<>>

\* A content fetch that failed with an Exception leaves its field None.
FailedFetchLeavesNone(l) ==
    /\ l.club_fetch.kind = "error" =>
           /\ l.result.club_content = NoStr
           /\ IsNone(l.result.club_wikipedia_url)
    /\ l.manager_fetch.kind = "error" =>
           /\ l.result.manager_content = NoStr
           /\ IsNone(l.result.manager_wikipedia_url)

\* C15 as stated: get_club_info never raises; a failed search or no binding
\* gives None, a failed content fetch alone leaves that field None, and
\* process_query never observes a raised lookup error.
C15_NeverRaises ==
    /\ pc # "raised"
    /\ \A i \in 1..Len(lookups) :
          /\ lookups[i].result.kind # "raise"
          /\ LookupFailed(lookups[i]) => IsNone(lookups[i].result)
          /\ lookups[i].result.kind = "club_info" => FailedFetchLeavesNone(lookups[i])

\* C15 amended: get_club_info never raises an Exception: a search that
\* fails with an Exception, a malformed answer or an empty binding list
\* gives None, and a content fetch that fails with an Exception leaves that
\* field None in the record returned; it raises exactly when a
\* BaseException that is no Exception interrupts the search or a fetch, and
\* only then does process_query observe a raised lookup.
C15_OnlyBaseExceptionRaises ==
    /\ \A i \in 1..Len(lookups) :
          LET l == lookups[i] IN
          /\ l.result.kind = "raise" <=> LookupInterrupted(l)
          /\ l.result.kind = "raise" => l.result.exc \notin ExceptionClasses
          /\ LookupFailed(l) => IsNone(l.result)
          /\ (~LookupInterrupted(l) /\ ~LookupFailed(l)) =>
                 /\ l.result.kind = "club_info"
                 /\ FailedFetchLeavesNone(l)
    /\ pc = "raised" =>
          /\ Len(lookups) > 0
          /\ LookupInterrupted(lookups[Len(lookups)])

\* A search that failed and a malformed answer were passed over as "no
\* club", then a club was returned whose club content fetch failed.
C15_Witness ==
    /\ pc = "done"
    /\ Len(lookups) = 3
    /\ lookups[1].response.kind = "error"
    /\ lookups[2].response.kind = "malformed"
    /\ lookups[3].result.kind = "club_info"
    /\ lookups[3].club_fetch.kind = "error"
    /\ lookups[3].manager_fetch.kind = "content"
    /\ lookups[3].result.club_content = NoStr
    /\ lookups[3].result.manager_content = "extract"

(***************************************************************************)
(* Two process_query requests on one RAGChatbot.  Both reach               *)
(* search_bundesliga_club through the one WikidataConnector, whose         *)
(* SPARQLWrapper keeps the query text between setQuery() and query().      *)
(***************************************************************************)
Requests == {1, 2}

\* Entity texts the two requests look up.
SearchTerms ==
    { <<"M", "a", "i", "n", "z">>,
      <<"b", "a", "y", "r", "n">>,
      <<"f", "c", " ", "M", "a", "i", "n", "z">> }

\* query = f"... FILTER(CONTAINS(LCASE(?alias), "{search_term.lower()}")) ...
\*           LIMIT {min(int(limit), 10)}" with limit=1
SearchQuery(search_term) ==
    [kind |-> "sparql", contains |-> Lower(search_term), limit |-> Min(1, 10)]

\* self.sparql.query().convert(): the endpoint answers the query text the
\* wrapper holds when query() runs.
RunSparql(q) == [kind |-> "bindings", matching |-> q.contains]

ConcInit ==
    /\ sparql_query = None
    /\ req_term \in [Requests -> SearchTerms]
    /\ req_pc = [r \in Requests |-> "search"]
    /\ req_query = [r \in Requests |-> None]
    /\ req_result = [r \in Requests |-> None]
    /\ SpanIdle /\ GazIdle /\ RagIdle

\* self.sparql.setQuery(query)
SetQuery(r) ==
    /\ req_pc[r] = "search"
    /\ sparql_query' = SearchQuery(req_term[r])
    /\ req_pc' = [req_pc EXCEPT ![r] = "query"]
    /\ UNCHANGED <<req_term, req_query, req_result, span_vars, gaz_vars, rag_vars>>

\* return self.sparql.query().convert()
RunQuery(r) ==
    /\ req_pc[r] = "query"
    /\ req_query' = [req_query EXCEPT ![r] = sparql_query]
    /\ req_result' = [req_result EXCEPT ![r] = RunSparql(sparql_query)]
    /\ req_pc' = [req_pc EXCEPT ![r] = "done"]
    /\ UNCHANGED <<sparql_query, req_term, span_vars, gaz_vars, rag_vars>>

ConcNext == \E r \in Requests : SetQuery(r) \/ RunQuery(r)

SpecConc == ConcInit /\ [][ConcNext]_vars

\* C11: under every interleaving each request's lookup executes the query
\* built from its own search term and gets the result for that term.
C11_OwnQueryExecuted ==
    \A r \in Requests :
        req_pc[r] = "done" =>
            /\ req_query[r] = SearchQuery(req_term[r])
            /\ req_result[r].matching = Lower(req_term[r])

====
